---- MODULE Spec2Model ----
(***************************************************************************)
(* Model of the buildbot react-data-module slice:                          *)
(*   - the Builder and Forcescheduler resource classes and descriptors,    *)
(*   - the hooks of ReactUtils.ts (useDataAccessor, useDataApiQuery,       *)
(*     useDataApiDynamicQuery, useDataApiSingleElementQuery).              *)
(* JavaScript values are represented by tokens: null is the string         *)
(* "<null>", NaN the string "NaN", booleans the strings "true"/"false".    *)
(***************************************************************************)
EXTENDS Integers, Sequences, FiniteSets, TLC

(* ------------------------------ bounds --------------------------------- *)
MaxBuilderId == 10   \* largest builderid of the raw objects
MaxDepLen == 2       \* longest dependency array
MaxAcc == 3          \* accessors one hook instance may open
MaxCol == 3          \* collections one hook instance may create

(* ------------------------- JavaScript helpers -------------------------- *)
Null == "<null>"

Digit(d) ==
  CASE d = 0 -> "0" [] d = 1 -> "1" [] d = 2 -> "2" [] d = 3 -> "3"
    [] d = 4 -> "4" [] d = 5 -> "5" [] d = 6 -> "6" [] d = 7 -> "7"
    [] d = 8 -> "8" [] d = 9 -> "9"

RECURSIVE NumberToString(_)
\* String(n) for a non-negative integer n: its decimal digits.
NumberToString(n) ==
  IF n < 10 THEN Digit(n) ELSE NumberToString(n \div 10) \o Digit(n % 10)

(* --------------------------- resource models --------------------------- *)
BuilderFields == {"builderid", "description", "masterids", "name", "tags"}
ForceschedulerFields ==
  {"name", "all_fields", "builder_names", "button_name", "label"}

\* Raw objects as the REST layer delivers them; one of each kind carries a
\* field the class does not declare.
BuilderIds == {1, MaxBuilderId}
BuilderRawPlain ==
  [builderid : BuilderIds, description : {Null, "nightly"},
   masterids : {<<>>, <<"1", "2">>}, name : {"b1", "b2"},
   tags : {<<>>, <<"slow">>}]
BuilderRawExtra ==
  {[builderid |-> i, description |-> Null, masterids |-> <<"1">>,
    name |-> "b1", tags |-> <<"slow">>, projectid |-> 5] : i \in BuilderIds}
BuilderRaw == BuilderRawPlain \cup BuilderRawExtra

ForceschedulerRawPlain ==
  [name : {"force", "force2"}, all_fields : {<<>>, <<"reason">>},
   builder_names : {<<>>, <<"b1">>}, button_name : {"Go", "Run"},
   label : {"Force", "Start"}]
ForceschedulerRawExtra ==
  {[name |-> n, all_fields |-> <<"reason">>, builder_names |-> <<"b1">>,
    button_name |-> "Go", label |-> "Force", enabled |-> "true"] :
      n \in {"force", "force2"}}
ForceschedulerRaw == ForceschedulerRawPlain \cup ForceschedulerRawExtra

ModelAccessors == {"accessor1"}

\* super(accessor, endpoint, id)
BaseClass_constructor(cls, accessor, endpoint, id) ==
  [cls |-> cls, accessor |-> accessor, endpoint |-> endpoint, id |-> id]

\* Variant of Builder.update with the two array attributes mixed up.
Builder_update_tagsFromMasterids(self, object) ==
  [cls |-> self.cls, accessor |-> self.accessor, endpoint |-> self.endpoint,
   id |-> self.id,
   builderid |-> object.builderid,
   description |-> object.description,
   masterids |-> object.masterids,
   name |-> object.name,
   tags |-> object.masterids]

Builder_update(self, object) ==
  [cls |-> self.cls, accessor |-> self.accessor, endpoint |-> self.endpoint,
   id |-> self.id,
   builderid |-> object.builderid,
   description |-> object.description,
   masterids |-> object.masterids,
   name |-> object.name,
   tags |-> object.tags]

\* Variant of the Builder constructor handing the name to BaseClass as id.
Builder_constructor_idFromName(accessor, endpoint, object) ==
  Builder_update(
    BaseClass_constructor("Builder", accessor, endpoint, object.name),
    object)

Builder_constructor(accessor, endpoint, object) ==
  Builder_update(
    BaseClass_constructor("Builder", accessor, endpoint,
                          NumberToString(object.builderid)),
    object)

Builder_toObject(self) ==
  [builderid |-> self.builderid,
   description |-> self.description,
   masterids |-> self.masterids,
   name |-> self.name,
   tags |-> self.tags]

builderDescriptor ==
  [cls |-> "Builder", restArrayField |-> "builders", fieldId |-> "builderid"]

BuilderDescriptor_parse(accessor, endpoint, object) ==
  Builder_constructor(accessor, endpoint, object)

Builder_getAll(accessor, query) ==
  [accessor |-> accessor, endpoint |-> "builders", query |-> query,
   descriptor |-> builderDescriptor]

Forcescheduler_update(self, object) ==
  [cls |-> self.cls, accessor |-> self.accessor, endpoint |-> self.endpoint,
   id |-> self.id,
   name |-> object.name,
   all_fields |-> object.all_fields,
   builder_names |-> object.builder_names,
   button_name |-> object.button_name,
   label |-> object.label]

Forcescheduler_constructor(accessor, endpoint, object) ==
  Forcescheduler_update(
    BaseClass_constructor("Forcescheduler", accessor, endpoint, object.name),
    object)

Forcescheduler_toObject(self) ==
  [name |-> self.name,
   all_fields |-> self.all_fields,
   builder_names |-> self.builder_names,
   button_name |-> self.button_name,
   label |-> self.label]

forceschedulerDescriptor ==
  [cls |-> "Forcescheduler", restArrayField |-> "forceschedulers",
   fieldId |-> "name"]

ForceschedulerDescriptor_parse(accessor, endpoint, object) ==
  Forcescheduler_constructor(accessor, endpoint, object)

\* Variant of Forcescheduler.getAll querying the builders endpoint.
Forcescheduler_getAll_buildersEndpoint(accessor, query) ==
  [accessor |-> accessor, endpoint |-> "builders", query |-> query,
   descriptor |-> forceschedulerDescriptor]

Forcescheduler_getAll(accessor, query) ==
  [accessor |-> accessor, endpoint |-> "forceschedulers", query |-> query,
   descriptor |-> forceschedulerDescriptor]

\* Dynamic dispatch of the two methods on the instance's class.
Model_update(self, object) ==
  IF self.cls = "Builder" THEN Builder_update(self, object)
                          ELSE Forcescheduler_update(self, object)

Model_toObject(self) ==
  IF self.cls = "Builder" THEN Builder_toObject(self)
                          ELSE Forcescheduler_toObject(self)

RawOf(cls) == IF cls = "Builder" THEN BuilderRaw ELSE ForceschedulerRaw
FieldsOf(cls) == IF cls = "Builder" THEN BuilderFields ELSE ForceschedulerFields

(* ------------------------------- hooks --------------------------------- *)
\* Elements of dependency arrays and the arrays themselves.
DepVal == {Null, "NaN"}
DepArrays == UNION {[1..n -> DepVal] : n \in 0..MaxDepLen}

\* Arrays live in a heap; a dependency argument is a reference into it.
\*   "caller"  : an array the calling component keeps and may mutate in place
\*   "literal" : the array literal a render passes ([x, y]), garbage afterwards
\*   "stored"  : the array held by storedDependency.current
Addr == {"caller", "literal", "stored"}

\* a !== b is the negation of this.
StrictEquals(x, y) == x = y /\ x # "NaN"

\* Variant of arrayElementsEqual without the length check: the loop runs over
\* a only (an element missing from b is undefined and differs).
arrayElementsEqual_noLengthCheck(a, b) ==
  \A i \in 1..Len(a) : i <= Len(b) /\ StrictEquals(a[i], b[i])

arrayElementsEqual(a, b) ==
  IF Len(a) # Len(b) THEN FALSE
  ELSE \A i \in 1..Len(a) : StrictEquals(a[i], b[i])

\* Variant of the snapshot that keeps the caller's array itself.
SpreadCopy_alias(h, dependency) == [heap |-> h, ref |-> dependency]

\* storedDependency.current = [...dependency]: a new array with the elements
\* of dependency; the previous stored array is garbage, its slot is reused.
SpreadCopy(h, dependency) ==
  [heap |-> [h EXCEPT !["stored"] = h[dependency]], ref |-> "stored"]

\* dataClient.open(): a new accessor, not closed.  Accessors are numbered in
\* creation order; accessors[i] counts the close() calls on accessor i.
DataClient_open(accs) == Append(accs, 0)

Accessor_close(accs, a) == [accs EXCEPT ![a] = @ + 1]

\* Variant of the render body that opens the replacement and leaves the
\* previous accessor open.
useDataAccessor_noClose(st, accs, h, dependency) ==
  IF st.accessor = 0 \/ ~arrayElementsEqual(h[dependency], h[st.storedDependency])
  THEN
    LET opened == DataClient_open(accs)
        copy == SpreadCopy(h, dependency)
    IN [accessor |-> Len(opened), storedDependency |-> copy.ref,
        accessors |-> opened, heap |-> copy.heap,
        ops |-> <<[op |-> "open", id |-> Len(opened)]>>,
        ret |-> Len(opened)]
  ELSE
    [accessor |-> st.accessor, storedDependency |-> st.storedDependency,
     accessors |-> accs, heap |-> h, ops |-> <<>>, ret |-> st.accessor]

\* The render body of useDataAccessor.  st = [accessor, storedDependency],
\* 0 standing for a null ref.
useDataAccessor(st, accs, h, dependency) ==
  IF st.accessor = 0 THEN
    LET opened == DataClient_open(accs)
        copy == SpreadCopy(h, dependency)
    IN [accessor |-> Len(opened), storedDependency |-> copy.ref,
        accessors |-> opened, heap |-> copy.heap,
        ops |-> <<[op |-> "open", id |-> Len(opened)]>>,
        ret |-> Len(opened)]
  ELSE IF ~arrayElementsEqual(h[dependency], h[st.storedDependency]) THEN
    LET closed == Accessor_close(accs, st.accessor)
        opened == DataClient_open(closed)
        copy == SpreadCopy(h, dependency)
    IN [accessor |-> Len(opened), storedDependency |-> copy.ref,
        accessors |-> opened, heap |-> copy.heap,
        ops |-> <<[op |-> "close", id |-> st.accessor],
                  [op |-> "open", id |-> Len(opened)]>>,
        ret |-> Len(opened)]
  ELSE
    [accessor |-> st.accessor, storedDependency |-> st.storedDependency,
     accessors |-> accs, heap |-> h, ops |-> <<>>, ret |-> st.accessor]

\* The effect of useDataAccessor (dependency list []): the value it returns,
\* TRUE standing for the cleanup closure, FALSE for undefined.
useDataAccessor_effect(st) == st.accessor # 0

\* The cleanup closure: accessor.current!.close(); accessor.current = null.
useDataAccessor_cleanup(st, accs) ==
  IF st.accessor # 0
    THEN [accessor |-> 0, accessors |-> Accessor_close(accs, st.accessor),
          ops |-> <<[op |-> "close", id |-> st.accessor]>>]
    ELSE [accessor |-> 0, accessors |-> accs,
          ops |-> <<[op |-> "TypeError", id |-> 0]>>]

\* A collection as the hooks see it: who created it and for which element
\* (callback() or, for a placeholder, new DataCollection()), what isExpired()
\* reports, and the number of close() calls.  Collections are numbered in
\* creation order.
NewCollection(by, el) ==
  [by |-> by, el |-> el, expired |-> FALSE, closes |-> 0]

Collection_isExpired(cs, c) == cs[c].expired

Collection_close(cs, c) == [cs EXCEPT ![c].closes = @ + 1]

CreateOp(created) ==
  IF created.by = "placeholder" THEN "new" ELSE "callback"

\* Variant of useDataApiQuery that does not close the replaced collection.
useDataApiQuery_noClose(st, cs, created) ==
  IF st.storedCollection = 0 \/ Collection_isExpired(cs, st.storedCollection)
  THEN
    LET made == Append(cs, created)
    IN [storedCollection |-> Len(made), cols |-> made,
        ops |-> <<[op |-> CreateOp(created), id |-> Len(made)]>>,
        ret |-> Len(made)]
  ELSE
    [storedCollection |-> st.storedCollection, cols |-> cs, ops |-> <<>>,
     ret |-> st.storedCollection]

\* Variant of useDataApiQuery that also re-queries when the callback passed
\* is not the one that created the stored collection.
useDataApiQuery_onCallbackChange(st, cs, created) ==
  IF \/ st.storedCollection = 0
     \/ Collection_isExpired(cs, st.storedCollection)
     \/ cs[st.storedCollection].by # created.by
  THEN
    LET closed == IF st.storedCollection # 0
                    THEN Collection_close(cs, st.storedCollection) ELSE cs
        made == Append(closed, created)
    IN [storedCollection |-> Len(made), cols |-> made,
        ops |-> (IF st.storedCollection # 0
                   THEN <<[op |-> "close", id |-> st.storedCollection]>>
                   ELSE <<>>)
                \o <<[op |-> CreateOp(created), id |-> Len(made)]>>,
        ret |-> Len(made)]
  ELSE
    [storedCollection |-> st.storedCollection, cols |-> cs, ops |-> <<>>,
     ret |-> st.storedCollection]

\* The body of useDataApiQuery.  st = [storedCollection] (0: null); created
\* is the collection callback() returns if it is invoked.
useDataApiQuery(st, cs, created) ==
  IF st.storedCollection = 0 \/ Collection_isExpired(cs, st.storedCollection)
  THEN
    LET closed == IF st.storedCollection # 0
                    THEN Collection_close(cs, st.storedCollection) ELSE cs
        made == Append(closed, created)
    IN [storedCollection |-> Len(made), cols |-> made,
        ops |-> (IF st.storedCollection # 0
                   THEN <<[op |-> "close", id |-> st.storedCollection]>>
                   ELSE <<>>)
                \o <<[op |-> CreateOp(created), id |-> Len(made)]>>,
        ret |-> Len(made)]
  ELSE
    [storedCollection |-> st.storedCollection, cols |-> cs, ops |-> <<>>,
     ret |-> st.storedCollection]

\* The body of useDataApiDynamicQuery.  st = [storedCollection,
\* storedDependency].
useDataApiDynamicQuery(st, cs, h, dependency, created) ==
  IF \/ st.storedCollection = 0
     \/ ~arrayElementsEqual(h[dependency], h[st.storedDependency])
     \/ Collection_isExpired(cs, st.storedCollection)
  THEN
    LET closed == IF st.storedCollection # 0
                    THEN Collection_close(cs, st.storedCollection) ELSE cs
        made == Append(closed, created)
        copy == SpreadCopy(h, dependency)
    IN [storedCollection |-> Len(made), storedDependency |-> copy.ref,
        cols |-> made, heap |-> copy.heap,
        ops |-> (IF st.storedCollection # 0
                   THEN <<[op |-> "close", id |-> st.storedCollection]>>
                   ELSE <<>>)
                \o <<[op |-> CreateOp(created), id |-> Len(made)]>>,
        ret |-> Len(made)]
  ELSE
    [storedCollection |-> st.storedCollection,
     storedDependency |-> st.storedDependency, cols |-> cs, heap |-> h,
     ops |-> <<>>, ret |-> st.storedCollection]

\* el === null, as a JavaScript boolean.
IsNullToken(el) == IF el = Null THEN "true" ELSE "false"

\* The body of useDataApiSingleElementQuery (useDataApiSinglePropertiesQuery
\* is the same with DataPropertiesCollection): the dependency is the array
\* literal [el === null], the callback the closure
\* () => el === null ? new DataCollection() : callback(el).
useDataApiSingleElementQuery(st, cs, h, el, callback) ==
  useDataApiDynamicQuery(
    st, cs, [h EXCEPT !["literal"] = <<IsNullToken(el)>>], "literal",
    IF el = Null THEN NewCollection("placeholder", Null)
                 ELSE NewCollection(callback, el))

VARIABLES
  model,      \* the resource model instance
  ctorId,     \* the identifier value of the raw object given to the constructor
  lastObj,    \* the raw object of the latest constructor/update call
  sameId,     \* every update so far carried the constructor's identifier
  lastOp,     \* "parse" | "update" | "roundtrip"
  nUpdates,   \* update calls since construction (capped at 2)
  lastGet,    \* the latest accessor.get request issued by a static getAll
  heap,       \* the arrays: Addr -> sequence of DepVal
  \* -- one useDataAccessor hook instance
  accRefs,    \* [accessor, storedDependency]: the .current of the two refs
  accessors,  \* accessors[i]: number of close() calls on the i-th accessor
  effectMounted, \* the [] effect is mounted
  cleanupFn,  \* the mounted effect returned a cleanup closure
  unmounted,  \* the component instance is unmounted
  accRet,     \* the accessor the latest render returned (0: none yet)
  accOps,     \* the open/close calls of the latest step, in order
  accPrevRet, \* the accessor the render before the latest one returned
  accSame,    \* the latest render's dependency array matched accOpenedWith
  accBetween, \* a cleanup ran between the latest render and the one before
  accCleaned, \* a cleanup ran since the latest render
  accOpenedWith, \* the elements of the dependency array at the latest open()
  \* -- one query hook instance
  kind,       \* which hook: "query" | "dynamic" | "single"
  qRefs,      \* [storedCollection, storedDependency]: the .current of the refs
  cols,       \* the collections created for the instance
  qRet,       \* the collection the latest render returned (0: none yet)
  qOps,       \* the close/callback/new calls of the latest render, in order
  qPrevRet,   \* the collection the render before the latest one returned
  qFirst,     \* no collection was stored when the latest render began
  qExpired,   \* the stored collection reported isExpired() in the latest render
  qDepDiff,   \* the latest render's dependency array differed from qSnapAtCall
  qCb,        \* the callback passed to the latest render
  qEl,        \* the el passed to the latest render ("single")
  qSrc,       \* which array the latest render passed ("dynamic")
  qSrcAtCall, \* which array was passed when the callback was invoked before
  qSnapAtCall \* the elements of the dependency array at the latest creation

modelVars == <<model, ctorId, lastObj, sameId, lastOp, nUpdates, lastGet>>

accVars == <<accRefs, accessors, effectMounted, cleanupFn, unmounted, accRet,
             accOps, accPrevRet, accSame, accBetween, accCleaned,
             accOpenedWith>>

qVars == <<kind, qRefs, cols, qRet, qOps, qPrevRet, qFirst, qExpired,
           qDepDiff, qCb, qEl, qSrc, qSrcAtCall, qSnapAtCall>>

vars == <<modelVars, heap, accVars, qVars>>

NoGet == [accessor |-> "none", endpoint |-> "none", query |-> "none",
          descriptor |-> [cls |-> "none", restArrayField |-> "none",
                          fieldId |-> "none"]]

IdOf(cls, object) ==
  IF cls = "Builder" THEN object.builderid ELSE object.name

ParseBuilder(acc, o) ==
  /\ model' = BuilderDescriptor_parse(acc, builderDescriptor.restArrayField, o)
  /\ ctorId' = o.builderid
  /\ lastObj' = o
  /\ sameId' = TRUE
  /\ lastOp' = "parse"
  /\ nUpdates' = 0
  /\ UNCHANGED <<lastGet, heap, accVars, qVars>>

ParseForcescheduler(acc, o) ==
  /\ model' = ForceschedulerDescriptor_parse(
                 acc, forceschedulerDescriptor.restArrayField, o)
  /\ ctorId' = o.name
  /\ lastObj' = o
  /\ sameId' = TRUE
  /\ lastOp' = "parse"
  /\ nUpdates' = 0
  /\ UNCHANGED <<lastGet, heap, accVars, qVars>>

Update(o) ==
  /\ model' = Model_update(model, o)
  /\ lastObj' = o
  /\ sameId' = (sameId /\ IdOf(model.cls, o) = ctorId)
  /\ lastOp' = "update"
  /\ nUpdates' = IF nUpdates < 2 THEN nUpdates + 1 ELSE 2
  /\ UNCHANGED <<ctorId, lastGet, heap, accVars, qVars>>

\* model.update(model.toObject())
RoundTrip ==
  /\ model' = Model_update(model, Model_toObject(model))
  /\ lastOp' = "roundtrip"
  /\ UNCHANGED <<ctorId, lastObj, sameId, nUpdates, lastGet, heap, accVars, qVars>>

GetAllBuilders(acc) ==
  /\ lastGet' = Builder_getAll(acc, "{}")
  /\ UNCHANGED <<model, ctorId, lastObj, sameId, lastOp, nUpdates, heap, accVars, qVars>>

GetAllForceschedulers(acc) ==
  /\ lastGet' = Forcescheduler_getAll(acc, "{}")
  /\ UNCHANGED <<model, ctorId, lastObj, sameId, lastOp, nUpdates, heap, accVars, qVars>>

\* The state of a hook instance before its first render.
IdleHeap == [a \in Addr |-> <<>>]

IdleAccessor ==
  /\ accRefs = [accessor |-> 0, storedDependency |-> "stored"]
  /\ accessors = <<>>
  /\ effectMounted = FALSE
  /\ cleanupFn = FALSE
  /\ unmounted = FALSE
  /\ accRet = 0
  /\ accOps = <<>>
  /\ accPrevRet = 0
  /\ accSame = FALSE
  /\ accBetween = FALSE
  /\ accCleaned = FALSE
  /\ accOpenedWith = <<>>

IdleQuery ==
  /\ qRefs = [storedCollection |-> 0, storedDependency |-> "stored"]
  /\ cols = <<>>
  /\ qRet = 0
  /\ qOps = <<>>
  /\ qPrevRet = 0
  /\ qFirst = FALSE
  /\ qExpired = FALSE
  /\ qDepDiff = FALSE
  /\ qCb = "none"
  /\ qEl = Null
  /\ qSrc = [now |-> "none", before |-> "none"]
  /\ qSrcAtCall = "none"
  /\ qSnapAtCall = <<>>

\* One fixed resource model, for the specifications that exercise the hooks.
IdleModels ==
  /\ model = ForceschedulerDescriptor_parse(
                "accessor1", "forceschedulers",
                [name |-> "force", all_fields |-> <<>>, builder_names |-> <<>>,
                 button_name |-> "Go", label |-> "Force"])
  /\ ctorId = "force"
  /\ lastObj = [name |-> "force", all_fields |-> <<>>, builder_names |-> <<>>,
                button_name |-> "Go", label |-> "Force"]
  /\ sameId = TRUE
  /\ lastOp = "parse"
  /\ nUpdates = 0
  /\ lastGet = NoGet

InitModels ==
  /\ heap = IdleHeap
  /\ IdleAccessor
  /\ kind = "query"
  /\ IdleQuery
  /\ \/ \E o \in BuilderRaw :
          /\ model = BuilderDescriptor_parse(
                        "accessor1", builderDescriptor.restArrayField, o)
          /\ ctorId = o.builderid
          /\ lastObj = o
     \/ \E o \in ForceschedulerRaw :
          /\ model = ForceschedulerDescriptor_parse(
                        "accessor1", forceschedulerDescriptor.restArrayField, o)
          /\ ctorId = o.name
          /\ lastObj = o
  /\ sameId = TRUE
  /\ lastOp = "parse"
  /\ nUpdates = 0
  /\ lastGet = NoGet

NextModels ==
  \/ \E acc \in ModelAccessors, o \in BuilderRaw : ParseBuilder(acc, o)
  \/ \E acc \in ModelAccessors, o \in ForceschedulerRaw :
        ParseForcescheduler(acc, o)
  \/ \E o \in RawOf(model.cls) : Update(o)
  \/ RoundTrip
  \/ \E acc \in ModelAccessors : GetAllBuilders(acc)
  \/ \E acc \in ModelAccessors : GetAllForceschedulers(acc)

SpecModels == InitModels /\ [][NextModels]_vars

(* --------------------- useDataAccessor: the instance ------------------- *)
\* The same length and pairwise identical (===) elements.
SameElements(x, y) ==
  /\ Len(x) = Len(y)
  /\ \A i \in 1..Len(x) : x[i] = y[i] /\ x[i] # "NaN"

\* The calling component mutates the array it keeps, in place.
CallerMutate(content) ==
  /\ ~unmounted
  /\ content # heap["caller"]
  /\ heap' = [heap EXCEPT !["caller"] = content]
  /\ UNCHANGED <<modelVars, accVars, qVars>>

\* A render of the component: useDataAccessor(dependency), where dependency
\* is the caller's kept array or an array literal with the given elements.
AccRender(src, content) ==
  /\ ~unmounted
  /\ Len(accessors) < MaxAcc
  /\ src = "caller" => content = heap["caller"]
  /\ LET h0 == [heap EXCEPT !["literal"] = IF src = "literal" THEN content ELSE @]
         r == useDataAccessor(accRefs, accessors, h0, src)
     IN /\ accRefs' = [accessor |-> r.accessor,
                       storedDependency |-> r.storedDependency]
        /\ accessors' = r.accessors
        /\ heap' = [r.heap EXCEPT !["literal"] = <<>>]
        /\ accOps' = r.ops
        /\ accRet' = r.ret
        /\ accPrevRet' = accRet
        /\ accSame' = SameElements(content, accOpenedWith)
        /\ accBetween' = accCleaned
        /\ accCleaned' = FALSE
        /\ accOpenedWith' =
             IF \E i \in 1..Len(r.ops) : r.ops[i].op = "open"
               THEN content ELSE accOpenedWith
  /\ UNCHANGED <<modelVars, qVars, effectMounted, cleanupFn, unmounted>>

\* React mounts the effect after a commit: the effect function runs.
EffectMount ==
  /\ ~unmounted
  /\ accRet # 0
  /\ ~effectMounted
  /\ effectMounted' = TRUE
  /\ cleanupFn' = useDataAccessor_effect(accRefs)
  /\ accOps' = <<>>
  /\ UNCHANGED <<modelVars, qVars, heap, accRefs, accessors, unmounted, accRet,
                 accPrevRet, accSame, accBetween, accCleaned, accOpenedWith>>

\* What React does when it unmounts the effect: the cleanup closure, if the
\* effect returned one, runs.
RunCleanup ==
  /\ effectMounted
  /\ effectMounted' = FALSE
  /\ cleanupFn' = FALSE
  /\ IF cleanupFn
       THEN LET r == useDataAccessor_cleanup(accRefs, accessors)
            IN /\ accRefs' = [accRefs EXCEPT !.accessor = r.accessor]
               /\ accessors' = r.accessors
               /\ accOps' = r.ops
               /\ accCleaned' = TRUE
       ELSE /\ accOps' = <<>>
            /\ UNCHANGED <<accRefs, accessors, accCleaned>>
  /\ UNCHANGED <<modelVars, qVars, heap, accRet, accPrevRet, accSame, accBetween,
                 accOpenedWith>>

\* The effect is unmounted while the instance stays alive (the remount cycle
\* of strict mode, of fast refresh, of a hidden subtree); EffectMount follows.
EffectRemountCleanup ==
  /\ ~unmounted
  /\ RunCleanup
  /\ UNCHANGED unmounted

\* The component instance is unmounted: its final effect cleanup.
Unmount ==
  /\ ~unmounted
  /\ RunCleanup
  /\ unmounted' = TRUE

InitAccessor ==
  /\ IdleModels
  /\ heap = IdleHeap
  /\ IdleAccessor
  /\ kind = "query"
  /\ IdleQuery

NextAccessor ==
  \/ \E c \in DepArrays : CallerMutate(c)
  \/ \E src \in {"caller", "literal"}, c \in DepArrays : AccRender(src, c)
  \/ EffectMount
  \/ EffectRemountCleanup
  \/ Unmount

SpecAccessor == InitAccessor /\ [][NextAccessor]_vars

(* ---------------------- the query hooks: the instance ------------------ *)
Callbacks == {"cb1", "cb2"}
Elements == {Null, "e1", "e2"}

Invoked(ops) == \E k \in 1..Len(ops) : ops[k].op = "callback"
Created(ops) == \E k \in 1..Len(ops) : ops[k].op \in {"callback", "new"}

\* The collaborating data layer lets a collection that is in use expire.
Expire(c) ==
  /\ c \in 1..Len(cols)
  /\ cols[c].closes = 0
  /\ ~cols[c].expired
  /\ cols' = [cols EXCEPT ![c].expired = TRUE]
  /\ UNCHANGED <<modelVars, heap, accVars, kind, qRefs, qRet, qOps, qPrevRet,
                 qFirst, qExpired, qDepDiff, qCb, qEl, qSrc, qSrcAtCall,
                 qSnapAtCall>>

\* A render calling useDataApiQuery(cb).
QueryRender(cb) ==
  /\ kind = "query"
  /\ Len(cols) < MaxCol
  /\ LET r == useDataApiQuery(qRefs, cols, NewCollection(cb, Null))
     IN /\ qRefs' = [qRefs EXCEPT !.storedCollection = r.storedCollection]
        /\ cols' = r.cols
        /\ qOps' = r.ops
        /\ qRet' = r.ret
  /\ qPrevRet' = qRet
  /\ qFirst' = (qRefs.storedCollection = 0)
  /\ qExpired' = (qRefs.storedCollection # 0 /\ cols[qRefs.storedCollection].expired)
  /\ qCb' = cb
  /\ UNCHANGED <<modelVars, heap, accVars, kind, qDepDiff, qEl, qSrc,
                 qSrcAtCall, qSnapAtCall>>

\* A render calling useDataApiDynamicQuery(dependency, cb), where dependency
\* is the caller's kept array or an array literal with the given elements.
DynamicRender(src, content, cb) ==
  /\ kind = "dynamic"
  /\ Len(cols) < MaxCol
  /\ src = "caller" => content = heap["caller"]
  /\ LET h0 == [heap EXCEPT !["literal"] = IF src = "literal" THEN content ELSE @]
         r == useDataApiDynamicQuery(qRefs, cols, h0, src, NewCollection(cb, Null))
     IN /\ qRefs' = [storedCollection |-> r.storedCollection,
                     storedDependency |-> r.storedDependency]
        /\ cols' = r.cols
        /\ heap' = [r.heap EXCEPT !["literal"] = <<>>]
        /\ qOps' = r.ops
        /\ qRet' = r.ret
        /\ qSnapAtCall' = IF Created(r.ops) THEN content ELSE qSnapAtCall
        /\ qSrcAtCall' = IF Created(r.ops) THEN src ELSE qSrcAtCall
  /\ qPrevRet' = qRet
  /\ qFirst' = (qRefs.storedCollection = 0)
  /\ qExpired' = (qRefs.storedCollection # 0 /\ cols[qRefs.storedCollection].expired)
  /\ qDepDiff' = ~SameElements(content, qSnapAtCall)
  /\ qCb' = cb
  /\ qSrc' = [now |-> src, before |-> qSrcAtCall]
  /\ UNCHANGED <<modelVars, accVars, kind, qEl>>

\* A render calling useDataApiSingleElementQuery(el, cb).
SingleRender(el, cb) ==
  /\ kind = "single"
  /\ Len(cols) < MaxCol
  /\ LET r == useDataApiSingleElementQuery(qRefs, cols, heap, el, cb)
     IN /\ qRefs' = [storedCollection |-> r.storedCollection,
                     storedDependency |-> r.storedDependency]
        /\ cols' = r.cols
        /\ heap' = [r.heap EXCEPT !["literal"] = <<>>]
        /\ qOps' = r.ops
        /\ qRet' = r.ret
        /\ qSnapAtCall' =
             IF Created(r.ops) THEN <<IsNullToken(el)>> ELSE qSnapAtCall
  /\ qPrevRet' = qRet
  /\ qFirst' = (qRefs.storedCollection = 0)
  /\ qExpired' = (qRefs.storedCollection # 0 /\ cols[qRefs.storedCollection].expired)
  /\ qDepDiff' = ~SameElements(<<IsNullToken(el)>>, qSnapAtCall)
  /\ qCb' = cb
  /\ qEl' = el
  /\ UNCHANGED <<modelVars, accVars, kind, qSrc, qSrcAtCall>>

InitQueries ==
  /\ IdleModels
  /\ heap = IdleHeap
  /\ IdleAccessor
  /\ kind \in {"query", "dynamic", "single"}
  /\ IdleQuery

NextQueries ==
  \/ \E c \in 1..MaxCol : Expire(c)
  \/ \E cb \in Callbacks : QueryRender(cb)
  \/ \E src \in {"caller", "literal"}, c \in DepArrays :
        DynamicRender(src, c, "cb1")
  \/ \E el \in Elements : SingleRender(el, "cb1")
  \/ \E c \in DepArrays : kind = "dynamic" /\ CallerMutate(c)

SpecQueries == InitQueries /\ [][NextQueries]_vars

(* --------------------- claims about useDataAccessor -------------------- *)
OpenAccessors == {i \in 1..Len(accessors) : accessors[i] = 0}

\* C3: every accessor the hook obtained from dataClient.open() is closed
\* exactly once (never twice), and once the final effect cleanup (unmount)
\* has run no accessor opened by the instance is still open.
C3_NoAccessorLeak ==
  /\ \A i \in 1..Len(accessors) : accessors[i] <= 1
  /\ unmounted => \A i \in 1..Len(accessors) : accessors[i] = 1

\* C5: at every point at most one accessor opened by the instance is open;
\* within a step no accessor is closed after another one was opened, so on a
\* dependency change the stored accessor is closed before its replacement is
\* opened.
C5_AtMostOneOpenAccessor ==
  /\ Cardinality(OpenAccessors) <= 1
  /\ \A k, l \in 1..Len(accOps) :
        ~(k < l /\ accOps[k].op = "open" /\ accOps[l].op = "close")
  /\ \A k \in 1..Len(accOps) :
        accOps[k].op = "open" =>
          \A j \in 1..Len(accessors) :
            j # accOps[k].id => accessors[j] >= 1

C5_Witness ==
  /\ Len(accOps) = 2
  /\ accOps[1].op = "close"
  /\ accOps[2].op = "open"
  /\ accOps[2].id = 3

\* C6: a render returns the accessor of the render before it exactly when its
\* dependency array has the length and pairwise === elements of the snapshot
\* taken when that accessor was opened and no effect cleanup ran in between;
\* otherwise it returns a freshly opened accessor and stores a copy of the
\* new dependency array.  The accessor a render returns is open when it is
\* returned.
C6_SameAccessorIffSameDependency ==
  accRet # 0 =>
    /\ accPrevRet # 0 =>
         ((accRet = accPrevRet) <=> (accSame /\ ~accBetween))
    /\ accRet # accPrevRet => accRet = Len(accessors)
    /\ accRefs.storedDependency \notin {"caller", "literal"}
    /\ heap[accRefs.storedDependency] = accOpenedWith
    /\ ~accCleaned => accessors[accRet] = 0

C6_Witness ==
  /\ accPrevRet # 0
  /\ accRet = accPrevRet
  /\ accOps = <<>>
  /\ Len(accOpenedWith) = 2
  /\ heap["caller"] # accOpenedWith
  /\ Len(accessors) = 2

(* ---------------------- claims about the query hooks ------------------- *)
UnclosedCollections == {i \in 1..Len(cols) : cols[i].closes = 0}

\* C7: useDataApiDynamicQuery invokes callback in a render iff no collection
\* is stored yet, or the dependency array differs (length or some element by
\* ===) from the snapshot taken at the last invocation, or the stored
\* collection reports isExpired(); otherwise the identical stored collection
\* is returned.  The snapshot is a copy, so an in-place mutation of the
\* caller's array between renders is detected as a change.
C7_DynamicQueryInvokesIffChanged ==
  (kind = "dynamic" /\ qRet # 0) =>
    /\ Invoked(qOps) <=> (qFirst \/ qDepDiff \/ qExpired)
    /\ ~Invoked(qOps) => (qOps = <<>> /\ qRet = qPrevRet)
    /\ qRefs.storedDependency \notin {"caller", "literal"}
    /\ heap[qRefs.storedDependency] = qSnapAtCall

C7_Witness ==
  /\ kind = "dynamic"
  /\ qSrc = [now |-> "caller", before |-> "caller"]
  /\ Invoked(qOps)
  /\ ~qFirst
  /\ ~qExpired
  /\ qDepDiff
  /\ Len(qSnapAtCall) = 2

\* C8: in useDataApiQuery and useDataApiDynamicQuery a replaced collection is
\* closed exactly once and before callback creates the new one; at most one
\* collection of the instance is unclosed at any time, none is closed twice,
\* and the collection a render returns has never been closed by the hook.
C8_ReplacedCollectionClosedOnceFirst ==
  kind \in {"query", "dynamic"} =>
    /\ Cardinality(UnclosedCollections) <= 1
    /\ \A i \in 1..Len(cols) : cols[i].closes <= 1
    /\ qRet # 0 => cols[qRet].closes = 0
    /\ (Invoked(qOps) /\ qFirst) =>
         qOps = <<[op |-> "callback", id |-> qRet]>>
    /\ (Invoked(qOps) /\ ~qFirst) =>
         /\ qOps = <<[op |-> "close", id |-> qPrevRet],
                     [op |-> "callback", id |-> qRet]>>
         /\ cols[qPrevRet].closes = 1
         /\ qRet # qPrevRet

C8_Witness ==
  /\ kind = "query"
  /\ Len(qOps) = 2
  /\ qOps[1] = [op |-> "close", id |-> 2]
  /\ qOps[2] = [op |-> "callback", id |-> 3]
  /\ cols[1].closes = 1

\* C9: useDataApiQuery invokes callback on the first render and afterwards
\* only, and always, in renders where the stored collection reports
\* isExpired(); in all other renders it returns the identical stored
\* collection, whichever callback is passed.
C9_QueryInvokesIffFirstOrExpired ==
  (kind = "query" /\ qRet # 0) =>
    /\ Invoked(qOps) <=> (qFirst \/ qExpired)
    /\ ~Invoked(qOps) => (qOps = <<>> /\ qRet = qPrevRet)

C9_Witness ==
  /\ kind = "query"
  /\ qRet # 0
  /\ qOps = <<>>
  /\ qRet = qPrevRet
  /\ cols[qRet].by # qCb

\* C10: useDataApiSingleElementQuery returns, for a render with el non-null,
\* a collection produced by callback(el) for the el of that render, and for
\* a render with el null a placeholder created without invoking callback.
C10_SingleElementCollectionMatchesEl ==
  (kind = "single" /\ qRet # 0) =>
    IF qEl = Null
      THEN cols[qRet].by = "placeholder" /\ ~Invoked(qOps)
      ELSE cols[qRet].by \in Callbacks /\ cols[qRet].el = qEl

(* ------------------- claims about the resource models ------------------ *)
\* The string form of an identifier value of class cls.
IdString(cls, v) == IF cls = "Builder" THEN NumberToString(v) ELSE v

\* C1: after construction from o, or after any sequence of updates ending in
\* update(o), toObject() has exactly the declared fields, each equal to the
\* value of o (no merging with earlier values); and update(m.toObject())
\* leaves every declared field of m unchanged.
C1_UpdateToObjectRoundTrip ==
  LET obj == Model_toObject(model)
      again == Model_update(model, obj)
  IN /\ DOMAIN obj = FieldsOf(model.cls)
     /\ \A f \in FieldsOf(model.cls) : obj[f] = lastObj[f]
     /\ \A f \in FieldsOf(model.cls) : again[f] = model[f]

C1_Witness ==
  /\ nUpdates = 2
  /\ lastOp = "roundtrip"
  /\ DOMAIN lastObj # FieldsOf(model.cls)
  /\ model.cls = "Builder"
  /\ model.tags # model.masterids

\* C2 as stated: after construction and after any sequence of update calls
\* with arbitrary raw objects, the identifier field holds the value the model
\* was constructed with and its string form equals the BaseClass id.
C2_IdentifierStableUnderAnyUpdate ==
  /\ IdOf(model.cls, model) = ctorId
  /\ IdString(model.cls, IdOf(model.cls, model)) = model.id

\* C2 amended: the BaseClass id always is the string form of the identifier
\* the model was constructed with; the identifier field holds the identifier
\* of the latest raw object applied, so it still holds the constructor's
\* value (and its string form still equals the BaseClass id) provided every
\* update carried the same identifier as the constructor's object.
C2_IdentifierStableForSameIdUpdates ==
  /\ model.id = IdString(model.cls, ctorId)
  /\ IdOf(model.cls, model) = IdOf(model.cls, lastObj)
  /\ sameId => /\ IdOf(model.cls, model) = ctorId
               /\ IdString(model.cls, IdOf(model.cls, model)) = model.id

C2_Witness ==
  /\ model.cls = "Builder"
  /\ nUpdates = 2
  /\ lastOp = "update"
  /\ sameId
  /\ model.builderid = MaxBuilderId

\* C4: the descriptors declare restArrayField/fieldId ("builders"/"builderid",
\* "forceschedulers"/"name"); parse builds a model of the descriptor's class
\* whose declared fields equal those of the raw object, whose fieldId field
\* equals o[fieldId] and whose BaseClass id is the string form of o[fieldId];
\* getAll queries the endpoint named by the restArrayField of the descriptor
\* it passes.
C4_DescriptorParseAndEndpoint ==
  LET d == IF model.cls = "Builder" THEN builderDescriptor
                                    ELSE forceschedulerDescriptor
  IN /\ builderDescriptor.restArrayField = "builders"
     /\ builderDescriptor.fieldId = "builderid"
     /\ forceschedulerDescriptor.restArrayField = "forceschedulers"
     /\ forceschedulerDescriptor.fieldId = "name"
     /\ lastOp = "parse" =>
          /\ model.cls = d.cls
          /\ \A f \in FieldsOf(model.cls) : model[f] = lastObj[f]
          /\ model[d.fieldId] = lastObj[d.fieldId]
          /\ model.id = IdString(model.cls, lastObj[d.fieldId])
     /\ lastGet # NoGet =>
          /\ lastGet.descriptor \in {builderDescriptor, forceschedulerDescriptor}
          /\ lastGet.endpoint = lastGet.descriptor.restArrayField

C4_Witness ==
  /\ lastOp = "parse"
  /\ model.cls = "Forcescheduler"
  /\ model.name = "force2"
  /\ lastGet = Forcescheduler_getAll("accessor1", "{}")
  /\ lastGet.descriptor = forceschedulerDescriptor

====
